---- MODULE Spec2Model ----
(***************************************************************************)
(* Model of the shared Playwright session of mcp_tools.py:                 *)
(* PlayWrightManager (singleton: __new__/__init__, ensure_browser, close)  *)
(* and the tool handlers that drive it (browser_navigate, browser_close,   *)
(* browser_save_as_pdf, and the handlers that only call ensure_browser).   *)
(*                                                                         *)
(* Every `await` of the source is a suspension point.  The code between    *)
(* two awaits runs atomically on the asyncio loop, so one action of the    *)
(* model is "resume from one await and run to the next await (or to the    *)
(* end of the handler)".  Every awaited library call either succeeds or    *)
(* raises; a raised exception propagates out of the handler because        *)
(* neither ensure_browser nor close catches anything.                      *)
(***************************************************************************)
EXTENDS Integers, FiniteSets, Sequences, TLC

\* ---------------------------------------------------------------- bounds
MaxObj == 2          \* objects of one kind the library hands out in a run

\* ------------------------------------------------------------- constants
Tasks == {1, 2}      \* coroutines running tool handlers on the event loop
Null == 0            \* Python None stored in a handle attribute
Unset == -1          \* attribute never assigned (reading it raises AttributeError)
Ids == 1..MaxObj
Kinds == {"engine", "browser", "context", "page"}
BrowserTypes == {"chromium", "firefox", "webkit"}
DefaultViewport == <<1920, 1080>>
Viewports == {DefaultViewport, <<800, 600>>}
\* argument lists a caller constructs the session with
CtorArgs ==
    {<<"chromium", FALSE, DefaultViewport>>,
     <<"firefox", TRUE, DefaultViewport>>,
     <<"webkit", FALSE, <<800, 600>>>>}

\* what a caller passes for a `str` parameter
ArgKinds == {"valid", "empty", "nonstring"}

VARIABLES
    m,           \* the singleton PlayWrightManager instance (its attributes)
    pw_manager,  \* module global: "obj" (the instance) or "None"
    made,        \* per kind: how many objects the library has created
    live,        \* per kind: the objects that are started/open
    par,         \* owner of each browser (engine), context (browser), page (context)
    opt,         \* arguments each browser / context was created with
    op,          \* per task: the handler it is running
    pc,          \* per task: the await it is suspended at
    tgt,         \* per task: the object and arguments of the awaited call
    ev,          \* observer: what the last step did, and the result of the
                 \* handler that ended in it
    stable,      \* observer: page returned by the undisturbed run of ensure_browser calls
    old,         \* observer: value of made when close() last returned
    first,       \* observer: no ensure_browser call has ended yet
    procs,       \* the operating system's process table, as psutil lists it
    kill         \* the last run of kill_all_chrome_instances

vars == <<m, pw_manager, made, live, par, opt, op, pc, tgt, ev, stable, old, first,
          procs, kill>>
objs == <<made, live, par, opt>>

NoTgt == [on |-> Null, arg |-> <<>>]
NoRet == [k |-> "none", v |-> Null]
Raised == [k |-> "raised", v |-> Null]

\* ------------------------------------------------- PlayWrightManager state

\* __init__ without the `if not self.initialized` guard
Construct_NoGuard(s, bt, hl, vp) ==
    [s EXCEPT !.browser_type = bt,
              !.headless     = hl,
              !.viewport     = vp,
              !.initialized  = TRUE,
              !.playwright   = Null,
              !.browser      = Null,
              !.context      = Null]

\* __new__ + __init__ run on the singleton instance s
Construct(s, bt, hl, vp) ==
    [s EXCEPT !.browser_type = IF s.initialized THEN @ ELSE bt,
              !.headless     = IF s.initialized THEN @ ELSE hl,
              !.viewport     = IF s.initialized THEN @ ELSE vp,
              !.initialized  = TRUE,
              !.playwright   = Null,
              !.browser      = Null,
              !.context      = Null]

\* the instance as __new__ leaves it, before __init__
Blank ==
    [initialized |-> FALSE, browser_type |-> "chromium", headless |-> FALSE,
     viewport |-> DefaultViewport,
     playwright |-> Null, browser |-> Null, context |-> Null, page |-> Unset]

Cfg(s) == <<s.browser_type, s.headless, s.viewport>>

\* ensure_browser: where the synchronous code goes next from each `if`
EnsureFrom57(s) ==
    IF s.page = Unset THEN "raise"
    ELSE IF s.page = Null THEN "aw_newpage2"
    ELSE "return"

EnsureFrom53(s) ==
    IF s.context = Null
    THEN IF s.browser = Null THEN "raise" ELSE "aw_newctx2"
    ELSE EnsureFrom57(s)

EnsureFrom43(s) ==
    IF s.browser = Null THEN "aw_launch" ELSE EnsureFrom53(s)

\* ensure_browser without the `if not self.playwright` guard
EnsureFrom40_AlwaysStart(s) == "aw_start"

EnsureFrom40(s) ==
    IF s.playwright = Null THEN "aw_start" ELSE EnsureFrom43(s)

\* launch called with headless=True instead of headless=self.headless
EnsureTgt_HeadlessTrue(s, lbl) ==
    CASE lbl = "aw_launch"   -> [on |-> s.playwright, arg |-> <<s.browser_type, TRUE>>]
      [] lbl = "aw_newctx2"  -> [on |-> s.browser, arg |-> <<>>]
      [] lbl = "aw_newpage2" -> [on |-> s.context, arg |-> <<>>]
      [] OTHER               -> NoTgt

\* receiver and arguments of the call awaited at label lbl
EnsureTgt(s, lbl) ==
    CASE lbl = "aw_launch"   -> [on |-> s.playwright, arg |-> <<s.browser_type, s.headless>>]
      [] lbl = "aw_newctx2"  -> [on |-> s.browser, arg |-> <<>>]
      [] lbl = "aw_newpage2" -> [on |-> s.context, arg |-> <<>>]
      [] OTHER               -> NoTgt

\* close without its last two lines (the page is never closed nor dropped)
CloseFrom75_KeepPage(s) ==
    IF s.page = Unset THEN "raise" ELSE "return"

\* close: where the synchronous code goes next from each `if`
CloseFrom75(s) ==
    IF s.page = Unset THEN "raise"
    ELSE IF s.page # Null THEN "cl_pg"
    ELSE "return"

CloseFrom72(s) ==
    IF s.playwright # Null THEN "cl_pw" ELSE CloseFrom75(s)

CloseFrom69(s) ==
    IF s.browser # Null THEN "cl_br" ELSE CloseFrom72(s)

CloseFrom66(s) ==
    IF s.context # Null THEN "cl_ctx" ELSE CloseFrom69(s)

CloseTgt(s, lbl) ==
    CASE lbl = "cl_ctx" -> [on |-> s.context, arg |-> <<>>]
      [] lbl = "cl_br"  -> [on |-> s.browser, arg |-> <<>>]
      [] lbl = "cl_pw"  -> [on |-> s.playwright, arg |-> <<>>]
      [] lbl = "cl_pg"  -> [on |-> s.page, arg |-> <<>>]
      [] OTHER          -> NoTgt

\* ------------------------------------------------ the automation library

PagesOf(cs) == {p \in live.page : par.page[p] \in cs}
ContextsOf(bs) == {c \in live.context : par.context[c] \in bs}
BrowsersOf(es) == {b \in live.browser : par.browser[b] \in es}

\* closing an object closes what it owns
AfterPageClose(p) == [live EXCEPT !.page = @ \ {p}]
AfterContextClose(c) ==
    [live EXCEPT !.context = @ \ {c}, !.page = @ \ PagesOf({c})]
AfterBrowserClose(b) ==
    [live EXCEPT !.browser = @ \ {b},
                 !.context = @ \ ContextsOf({b}),
                 !.page = @ \ PagesOf(ContextsOf({b}))]
AfterEngineStop(e) ==
    [live EXCEPT !.engine = @ \ {e},
                 !.browser = @ \ BrowsersOf({e}),
                 !.context = @ \ ContextsOf(BrowsersOf({e})),
                 !.page = @ \ PagesOf(ContextsOf(BrowsersOf({e})))]

\* a page on which DOM operations work
Usable(p) ==
    /\ p \in live.page
    /\ par.page[p] \in live.context
    /\ par.context[par.page[p]] \in live.browser
    /\ par.browser[par.context[par.page[p]]] \in live.engine

\* ------------------------------------------------------------- observers

Disturbing == {"close_enter", "step_failed", "attr_error", "construct"}

StableAfter(s, e) ==
    IF "ensure_ret" \in e
    THEN [page |-> s.page,
          calls |-> IF stable.calls = "none" THEN "once" ELSE "again"]
    ELSE IF e \cap Disturbing # {} THEN [page |-> Null, calls |-> "none"]
    ELSE stable

\* the awaits of ensure_browser
EnsureAwaits ==
    {"aw_start", "aw_launch", "aw_newctx1", "aw_newpage1", "aw_newctx2", "aw_newpage2"}

\* the step in which task t goes to lbl doing e ends a call of ensure_browser
\* (it returns, or an exception leaves it)
EnsureEnds(t, lbl, e) ==
    \/ "ensure_ret" \in e
    \/ /\ lbl = "idle"
       /\ \/ pc[t] \in EnsureAwaits
          \/ {"ensure_enter", "attr_error"} \subseteq e

\* ------------------------------------------------------ control transfer

\* task t leaves the step with manager state s, global g, handler h,
\* suspended at lbl on tg (or idle with result r); e = what the step did
Ctl(t, s, g, h, lbl, tg, r, e) ==
    /\ m' = s
    /\ pw_manager' = g
    /\ op' = [op EXCEPT ![t] = h]
    /\ pc' = [pc EXCEPT ![t] = lbl]
    /\ tgt' = [tgt EXCEPT ![t] = tg]
    /\ ev' = [what |-> e, res |-> r]
    /\ stable' = StableAfter(s, e)
    /\ old' = IF "close_ret" \in e THEN made ELSE old
    /\ first' = (first /\ ~EnsureEnds(t, lbl, e))
    /\ UNCHANGED <<procs, kill>>

\* the handler of task t ends
Done(t, s, g, r, e) == Ctl(t, s, g, "idle", "idle", NoTgt, r, e)

\* an awaited call raised: the exception leaves the handler
Fail(t, e) == Done(t, m, pw_manager, Raised, e \cup {"step_failed"})

\* ensure_browser continues synchronously to lbl (lines 40-61); when it
\* returns, the calling handler awaits its operation on the returned page
EnsureGo(t, s, g, h, lbl, e) ==
    CASE lbl = "return" ->
            Ctl(t, s, g, h, "aw_pageop", [on |-> s.page, arg |-> <<>>],
                [k |-> "page", v |-> s.page], e \cup {"ensure_ret"})
      [] lbl = "raise" ->
            Done(t, s, g, Raised, e \cup {"attr_error"})
      [] OTHER ->
            Ctl(t, s, g, h, lbl, EnsureTgt(s, lbl), NoRet, e)

\* close continues synchronously to lbl (lines 66-77); when it returns the
\* calling handler goes on: browser_close drops the global (line 131),
\* browser_save_as_pdf installs its configuration and calls ensure_browser
\* (lines 320-323)
CloseGo(t, s, g, h, lbl, e) ==
    CASE lbl = "return" ->
            IF h = "browser_close"
            THEN Done(t, s, "None", [k |-> "closed", v |-> Null], e \cup {"close_ret"})
            ELSE LET s2 == [s EXCEPT !.browser_type = "chromium", !.headless = FALSE]
                 IN EnsureGo(t, s2, g, h, EnsureFrom40(s2),
                             e \cup {"close_ret", "ensure_enter"})
      [] lbl = "raise" ->
            Done(t, s, g, Raised, e \cup {"attr_error"})
      [] OTHER ->
            Ctl(t, s, g, h, lbl, CloseTgt(s, lbl), NoRet, e)

\* ------------------------------------------------------------------ Init

SessionInit ==
    /\ m = Construct(Blank, "chromium", FALSE, DefaultViewport)
    /\ pw_manager = "obj"
    /\ made = [k \in Kinds |-> 0]
    /\ live = [k \in Kinds |-> {}]
    /\ par = [k \in Kinds \ {"engine"} |-> [i \in Ids |-> Null]]
    /\ opt = [k \in {"browser", "context"} |-> [i \in Ids |-> <<>>]]
    /\ op = [t \in Tasks |-> "idle"]
    /\ pc = [t \in Tasks |-> "idle"]
    /\ tgt = [t \in Tasks |-> NoTgt]
    /\ ev = [what |-> {}, res |-> NoRet]
    /\ stable = [page |-> Null, calls |-> "none"]
    /\ old = [k \in Kinds |-> 0]
    /\ first = TRUE

\* ------------------------------------------------------ process cleanup
\* Strings that are searched are sequences of characters.
UpperCase == <<"A", "B", "C", "D", "E", "F", "G", "H", "I", "J", "K", "L", "M",
               "N", "O", "P", "Q", "R", "S", "T", "U", "V", "W", "X", "Y", "Z">>
LowerCase == <<"a", "b", "c", "d", "e", "f", "g", "h", "i", "j", "k", "l", "m",
               "n", "o", "p", "q", "r", "s", "t", "u", "v", "w", "x", "y", "z">>

\* str.lower()
Lower(str) ==
    [i \in DOMAIN str |->
        IF \E j \in DOMAIN UpperCase : UpperCase[j] = str[i]
        THEN LowerCase[CHOOSE j \in DOMAIN UpperCase : UpperCase[j] = str[i]]
        ELSE str[i]]

\* `sub in str`
Contains(sub, str) ==
    \E k \in 0..(Len(str) - Len(sub)) : SubSeq(str, k + 1, k + Len(sub)) = sub

\* None where a str is expected (no character is spelled "None")
NoStr == <<"None">>

Sig_chrome == <<"c", "h", "r", "o", "m", "e">>
Sig_playwright == <<"p", "l", "a", "y", "w", "r", "i", "g", "h", "t">>

\* process.info['name']: None, '', 'Chrome', 'firefox'
ProcNames ==
    {NoStr, <<>>, <<"C", "h", "r", "o", "m", "e">>,
     <<"f", "i", "r", "e", "f", "o", "x">>}

\* process.info['exe']: None, '/ms-playwright/chrome', '/usr/bin/chrome'
ProcExes ==
    {NoStr,
     <<"/", "m", "s", "-">> \o Sig_playwright \o <<"/">> \o Sig_chrome,
     <<"/", "u", "s", "r", "/", "b", "i", "n", "/">> \o Sig_chrome}

MaxProcs == 3
ProcTables ==
    UNION {[1..n -> [name : ProcNames, exe : ProcExes]] : n \in 0..MaxProcs}

\* what process.terminate() does: it sends the signal, or raises
TermOutcomes == {"sent", "NoSuchProcess", "AccessDenied", "OSError"}

\* truthiness of a str-or-None value
Truthy(x) == x # NoStr /\ x # <<>>

\* the `if` of lines 152-157, with `or` in place of the middle `and`
Matches_Either(info) ==
    \/ Truthy(info.name) /\ Contains(Sig_chrome, Lower(info.name))
    \/ Truthy(info.exe) /\ Contains(Sig_playwright, Lower(info.exe))

\* the `if` of lines 152-157
Matches(info) ==
    /\ Truthy(info.name)
    /\ Contains(Sig_chrome, Lower(info.name))
    /\ Truthy(info.exe)
    /\ Contains(Sig_playwright, Lower(info.exe))

NoKill == [done |-> FALSE, out |-> <<>>, res |-> "none"]

\* the for loop of lines 149-164 from process i on; out[j] is what
\* terminate() did on process j, "none" where it was not called, and oc[j]
\* is what it does on a process it is called on
RECURSIVE KillLoop(_, _, _, _)
KillLoop(ps, oc, i, out) ==
    IF i > Len(ps)
    THEN [done |-> TRUE, out |-> out, res |-> "terminated"]
    ELSE IF ~Matches(ps[i])
    THEN KillLoop(ps, oc, i + 1, out)
    ELSE IF oc[i] = "OSError"
    THEN [done |-> TRUE, out |-> [out EXCEPT ![i] = oc[i]], res |-> "failed"]
    ELSE KillLoop(ps, oc, i + 1, [out EXCEPT ![i] = oc[i]])

\* kill_all_chrome_instances: it has no await, so it runs in one step
KillAll ==
    /\ ~kill.done
    /\ \E oc \in [{i \in DOMAIN procs : Matches(procs[i])} -> TermOutcomes] :
          kill' = KillLoop(procs, oc, 1, [j \in DOMAIN procs |-> "none"])
    /\ UNCHANGED <<m, pw_manager, made, live, par, opt, op, pc, tgt, ev, stable,
                   old, first, procs>>

Init ==
    /\ SessionInit
    /\ procs = <<>>
    /\ kill = NoKill

KillInit ==
    /\ SessionInit
    /\ procs \in ProcTables
    /\ kill = NoKill

KillNext == KillAll

KillSpec == KillInit /\ [][KillNext]_vars

\* ------------------------------------------------------- handler entries

\* browser_go_back, and every handler of its shape: first statement
\* `page = await pw_manager.ensure_browser()`, then a page operation outside
\* any try (browser_reload, get_page_content, get_page_html, get_page_title)
StartTool(t) ==
    /\ pc[t] = "idle"
    /\ UNCHANGED objs
    /\ IF pw_manager = "None"
       THEN Done(t, m, pw_manager, Raised, {"attr_error"})
       ELSE EnsureGo(t, m, pw_manager, "tool", EnsureFrom40(m), {"ensure_enter"})

\* browser_navigate with a valid url
StartNavigate(t) ==
    /\ pc[t] = "idle"
    /\ UNCHANGED objs
    /\ IF pw_manager = "None"
       THEN LET s == Construct(m, "chromium", FALSE, DefaultViewport)
            IN EnsureGo(t, s, "obj", "browser_navigate", EnsureFrom40(s),
                        {"construct", "ensure_enter"})
       ELSE EnsureGo(t, m, pw_manager, "browser_navigate", EnsureFrom40(m),
                     {"ensure_enter"})

\* browser_close
StartClose(t) ==
    /\ pc[t] = "idle"
    /\ UNCHANGED objs
    /\ IF pw_manager = "None"
       THEN Done(t, m, pw_manager, [k |-> "not_running", v |-> Null], {})
       ELSE CloseGo(t, m, pw_manager, "browser_close", CloseFrom66(m), {"close_enter"})

\* browser_save_as_pdf
StartPdf(t) ==
    /\ pc[t] = "idle"
    /\ UNCHANGED objs
    /\ IF pw_manager = "None"
       THEN Done(t, m, pw_manager, Raised, {"attr_error"})
       ELSE IF m.browser_type # "chromium" \/ ~m.headless
       THEN CloseGo(t, m, pw_manager, "browser_save_as_pdf", CloseFrom66(m),
                    {"close_enter"})
       ELSE LET s2 == [m EXCEPT !.browser_type = "chromium", !.headless = FALSE]
            IN EnsureGo(t, s2, pw_manager, "browser_save_as_pdf", EnsureFrom40(s2),
                        {"ensure_enter"})

\* `not x or not isinstance(x, str)`
BadString(x) == x \in {"empty", "nonstring"}

\* browser_fill(selector, text): lines 188-193
StartFill(t, selector, text) ==
    /\ pc[t] = "idle"
    /\ UNCHANGED objs
    /\ LET e == IF BadString(selector) \/ text = "nonstring" THEN {"bad_arg"} ELSE {}
       IN IF BadString(selector) \/ text = "nonstring"
          THEN Done(t, m, pw_manager, [k |-> "error_string", v |-> Null], e)
          ELSE IF pw_manager = "None"
          THEN Done(t, m, pw_manager, Raised, e \cup {"attr_error"})
          ELSE EnsureGo(t, m, pw_manager, "browser_fill", EnsureFrom40(m),
                        e \cup {"ensure_enter"})

\* login_to_github(username, password): line 880 is its first statement
StartLogin(t, username, password) ==
    /\ pc[t] = "idle"
    /\ UNCHANGED objs
    /\ LET e == IF BadString(username) \/ BadString(password) THEN {"bad_arg"} ELSE {}
       IN IF pw_manager = "None"
          THEN Done(t, m, pw_manager, Raised, e \cup {"attr_error"})
          ELSE EnsureGo(t, m, pw_manager, "login_to_github", EnsureFrom40(m),
                        e \cup {"ensure_enter"})

\* --------------------------------------------- ensure_browser, resumed

\* line 41: self.playwright = await pw.async_playwright().start()
StartEngine(t) ==
    /\ pc[t] = "aw_start"
    /\ \/ /\ made.engine < MaxObj
          /\ LET e == made.engine + 1
                 s == [m EXCEPT !.playwright = e]
             IN /\ made' = [made EXCEPT !.engine = e]
                /\ live' = [live EXCEPT !.engine = @ \cup {e}]
                /\ UNCHANGED <<par, opt>>
                /\ EnsureGo(t, s, pw_manager, op[t], EnsureFrom43(s), {"created"})
       \/ /\ UNCHANGED objs
          /\ Fail(t, {})

\* line 46: self.browser = await browser_factory.launch(headless=...), then
\* line 47 calls self.browser.new_context(viewport=self.viewport)
LaunchBrowser(t) ==
    /\ pc[t] = "aw_launch"
    /\ \/ /\ made.browser < MaxObj
          /\ tgt[t].on \in live.engine
          /\ LET b == made.browser + 1
                 s == [m EXCEPT !.browser = b]
             IN /\ made' = [made EXCEPT !.browser = b]
                /\ live' = [live EXCEPT !.browser = @ \cup {b}]
                /\ par' = [par EXCEPT !.browser[b] = tgt[t].on]
                /\ opt' = [opt EXCEPT !.browser[b] = tgt[t].arg]
                /\ Ctl(t, s, pw_manager, op[t], "aw_newctx1",
                       [on |-> b, arg |-> <<s.viewport>>], NoRet, {"created"})
       \/ /\ UNCHANGED objs
          /\ Fail(t, {"launch_failed"})

\* lines 47-51: self.context = await ...new_context(viewport), then
\* self.context.new_page() is called
LaunchContext(t) ==
    /\ pc[t] = "aw_newctx1"
    /\ \/ /\ made.context < MaxObj
          /\ tgt[t].on \in live.browser
          /\ LET c == made.context + 1
                 s == [m EXCEPT !.context = c]
             IN /\ made' = [made EXCEPT !.context = c]
                /\ live' = [live EXCEPT !.context = @ \cup {c}]
                /\ par' = [par EXCEPT !.context[c] = tgt[t].on]
                /\ opt' = [opt EXCEPT !.context[c] = tgt[t].arg]
                /\ Ctl(t, s, pw_manager, op[t], "aw_newpage1",
                       [on |-> c, arg |-> <<>>], NoRet, {"created"})
       \/ /\ UNCHANGED objs
          /\ Fail(t, {})

\* line 51: self.page = await self.context.new_page(), then on to line 53
LaunchPage(t) ==
    /\ pc[t] = "aw_newpage1"
    /\ \/ /\ made.page < MaxObj
          /\ tgt[t].on \in live.context
          /\ LET p == made.page + 1
                 s == [m EXCEPT !.page = p]
             IN /\ made' = [made EXCEPT !.page = p]
                /\ live' = [live EXCEPT !.page = @ \cup {p}]
                /\ par' = [par EXCEPT !.page[p] = tgt[t].on]
                /\ UNCHANGED opt
                /\ EnsureGo(t, s, pw_manager, op[t], EnsureFrom53(s), {"created"})
       \/ /\ UNCHANGED objs
          /\ Fail(t, {})

\* line 55: self.context = await self.browser.new_context(), then line 57
RecreateContext(t) ==
    /\ pc[t] = "aw_newctx2"
    /\ \/ /\ made.context < MaxObj
          /\ tgt[t].on \in live.browser
          /\ LET c == made.context + 1
                 s == [m EXCEPT !.context = c]
             IN /\ made' = [made EXCEPT !.context = c]
                /\ live' = [live EXCEPT !.context = @ \cup {c}]
                /\ par' = [par EXCEPT !.context[c] = tgt[t].on]
                /\ opt' = [opt EXCEPT !.context[c] = tgt[t].arg]
                /\ EnsureGo(t, s, pw_manager, op[t], EnsureFrom57(s), {"created"})
       \/ /\ UNCHANGED objs
          /\ Fail(t, {})

\* line 59: self.page = await self.context.new_page(), then return self.page
RecreatePage(t) ==
    /\ pc[t] = "aw_newpage2"
    /\ \/ /\ made.page < MaxObj
          /\ tgt[t].on \in live.context
          /\ LET p == made.page + 1
                 s == [m EXCEPT !.page = p]
             IN /\ made' = [made EXCEPT !.page = p]
                /\ live' = [live EXCEPT !.page = @ \cup {p}]
                /\ par' = [par EXCEPT !.page[p] = tgt[t].on]
                /\ UNCHANGED opt
                /\ EnsureGo(t, s, pw_manager, op[t], "return", {"created"})
       \/ /\ UNCHANGED objs
          /\ Fail(t, {})

\* ------------------------------------------------------- close, resumed

\* lines 67-68: await self.context.close(); self.context = None
CloseContext(t) ==
    /\ pc[t] = "cl_ctx"
    /\ UNCHANGED <<made, par, opt>>
    /\ \/ /\ live' = AfterContextClose(tgt[t].on)
          /\ LET s == [m EXCEPT !.context = Null]
             IN CloseGo(t, s, pw_manager, op[t], CloseFrom69(s), {})
       \/ /\ UNCHANGED live
          /\ Fail(t, {"close_step_failed"})

\* lines 70-71: await self.browser.close(); self.browser = None
CloseBrowser(t) ==
    /\ pc[t] = "cl_br"
    /\ UNCHANGED <<made, par, opt>>
    /\ \/ /\ live' = AfterBrowserClose(tgt[t].on)
          /\ LET s == [m EXCEPT !.browser = Null]
             IN CloseGo(t, s, pw_manager, op[t], CloseFrom72(s), {})
       \/ /\ UNCHANGED live
          /\ Fail(t, {"close_step_failed"})

\* lines 73-74: await self.playwright.stop(); self.playwright = None
StopEngine(t) ==
    /\ pc[t] = "cl_pw"
    /\ UNCHANGED <<made, par, opt>>
    /\ \/ /\ live' = AfterEngineStop(tgt[t].on)
          /\ LET s == [m EXCEPT !.playwright = Null]
             IN CloseGo(t, s, pw_manager, op[t], CloseFrom75(s), {})
       \/ /\ UNCHANGED live
          /\ Fail(t, {"close_step_failed"})

\* lines 76-77: await self.page.close(); self.page = None
ClosePage(t) ==
    /\ pc[t] = "cl_pg"
    /\ UNCHANGED <<made, par, opt>>
    /\ \/ /\ live' = AfterPageClose(tgt[t].on)
          /\ LET s == [m EXCEPT !.page = Null]
             IN CloseGo(t, s, pw_manager, op[t], "return", {})
       \/ /\ UNCHANGED live
          /\ Fail(t, {"close_step_failed"})

\* ------------------------------------------- the handler's page operation

\* handlers whose page operation stands inside try/except Exception:
\* browser_navigate (lines 111-116), browser_save_as_pdf (337-342),
\* browser_fill (196-201); browser_go_back (line 251) has none, and
\* login_to_github calls page.goto (line 883) before its try
Guarded(h) == h \in {"browser_navigate", "browser_save_as_pdf", "browser_fill"}

\* await page.goto / go_back / pdf / fill: it succeeds on a usable page, or
\* raises; the handler returns its confirmation, or the error string of its
\* except clause, or the exception leaves it
PageOp(t) ==
    /\ pc[t] = "aw_pageop"
    /\ UNCHANGED objs
    /\ \/ /\ Usable(tgt[t].on)
          /\ IF op[t] = "login_to_github"
             THEN Ctl(t, m, pw_manager, op[t], "aw_login_try", tgt[t], NoRet,
                      {"pageop_ok"})
             ELSE Done(t, m, pw_manager, [k |-> "ok", v |-> Null], {"pageop_ok"})
       \/ IF Guarded(op[t])
          THEN Done(t, m, pw_manager, [k |-> "error_string", v |-> Null],
                    {"pageop_failed"})
          ELSE Done(t, m, pw_manager, Raised, {"pageop_failed"})

\* login_to_github, lines 884-906: the form is filled and submitted inside
\* try/except Exception, so the handler ends with a string either way (the
\* nested browser_fill / browser_click / get_element_text calls are taken
\* as one awaited block on the page the handler already holds)
LoginTry(t) ==
    /\ pc[t] = "aw_login_try"
    /\ UNCHANGED objs
    /\ \/ /\ Usable(tgt[t].on)
          /\ Done(t, m, pw_manager, [k |-> "ok", v |-> Null], {"pageop_ok"})
       \/ Done(t, m, pw_manager, [k |-> "error_string", v |-> Null],
               {"pageop_failed"})

\* ------------------------------------------------------- specifications

Idle == \A u \in Tasks : pc[u] = "idle"

\* handlers interleave at their awaits (what the event loop allows)
Next ==
    \E t \in Tasks :
        \/ StartTool(t)
        \/ StartNavigate(t)
        \/ StartClose(t)
        \/ StartPdf(t)
        \/ StartEngine(t)
        \/ LaunchBrowser(t)
        \/ LaunchContext(t)
        \/ LaunchPage(t)
        \/ RecreateContext(t)
        \/ RecreatePage(t)
        \/ CloseContext(t)
        \/ CloseBrowser(t)
        \/ StopEngine(t)
        \/ ClosePage(t)
        \/ PageOp(t)

Spec == Init /\ [][Next]_vars

\* the caller issues one handler call at a time (section 5 of the design):
\* every call runs on the same coroutine
Caller == CHOOSE t \in Tasks : \A u \in Tasks : t <= u

SeqNext ==
    \E t \in {Caller} :
        \/ Idle /\ StartTool(t)
        \/ Idle /\ StartNavigate(t)
        \/ Idle /\ StartClose(t)
        \/ Idle /\ StartPdf(t)
        \/ StartEngine(t)
        \/ LaunchBrowser(t)
        \/ LaunchContext(t)
        \/ LaunchPage(t)
        \/ RecreateContext(t)
        \/ RecreatePage(t)
        \/ CloseContext(t)
        \/ CloseBrowser(t)
        \/ StopEngine(t)
        \/ ClosePage(t)
        \/ PageOp(t)

SeqSpec == Init /\ [][SeqNext]_vars

\* one call at a time, with the handlers that take string arguments
ToolNext ==
    \E t \in {Caller} :
        \/ Idle /\ StartTool(t)
        \/ Idle /\ StartNavigate(t)
        \/ Idle /\ StartClose(t)
        \/ Idle /\ StartPdf(t)
        \/ \E selector \in ArgKinds, text \in ArgKinds :
               Idle /\ StartFill(t, selector, text)
        \/ \E username \in ArgKinds, password \in ArgKinds :
               Idle /\ StartLogin(t, username, password)
        \/ StartEngine(t)
        \/ LaunchBrowser(t)
        \/ LaunchContext(t)
        \/ LaunchPage(t)
        \/ RecreateContext(t)
        \/ RecreatePage(t)
        \/ CloseContext(t)
        \/ CloseBrowser(t)
        \/ StopEngine(t)
        \/ ClosePage(t)
        \/ PageOp(t)
        \/ LoginTry(t)

ToolSpec == Init /\ [][ToolNext]_vars

\* a caller evaluates PlayWrightManager(bt, hl, vp) between two handler calls
Reconstruct(t, bt, hl, vp) ==
    /\ pc[t] = "idle"
    /\ UNCHANGED objs
    /\ Done(t, Construct(m, bt, hl, vp), pw_manager, NoRet,
            {"construct"} \cup
            (IF <<bt, hl, vp>> # Cfg(m) THEN {"construct_other"} ELSE {}))

CfgNext ==
    \E t \in {Caller} :
        \/ Idle /\ StartTool(t)
        \/ Idle /\ StartNavigate(t)
        \/ Idle /\ StartClose(t)
        \/ Idle /\ StartPdf(t)
        \/ \E a \in CtorArgs : Idle /\ Reconstruct(t, a[1], a[2], a[3])
        \/ StartEngine(t)
        \/ LaunchBrowser(t)
        \/ LaunchContext(t)
        \/ LaunchPage(t)
        \/ RecreateContext(t)
        \/ RecreatePage(t)
        \/ CloseContext(t)
        \/ CloseBrowser(t)
        \/ StopEngine(t)
        \/ ClosePage(t)
        \/ PageOp(t)

CfgSpec == Init /\ [][CfgNext]_vars

TypeOK ==
    /\ m.playwright \in {Null} \cup Ids
    /\ m.browser \in {Null} \cup Ids
    /\ m.context \in {Null} \cup Ids
    /\ m.page \in {Null, Unset} \cup Ids
    /\ pw_manager \in {"obj", "None"}
    /\ procs \in ProcTables
    /\ kill.res \in {"none", "terminated", "failed"}
    /\ DOMAIN kill.out \subseteq DOMAIN procs
    /\ \A k \in Kinds : made[k] \in 0..MaxObj /\ live[k] \subseteq 1..made[k]

\* ---------------------------------------------------------------- claims

AllNull(s) ==
    s.playwright = Null /\ s.browser = Null /\ s.context = Null /\ s.page = Null

NoPage(s) == s.page \in {Null, Unset}

TornDown(s) ==
    s.playwright = Null /\ s.browser = Null /\ s.context = Null /\ NoPage(s)

Handles(s) == <<s.playwright, s.browser, s.context, s.page>>

\* C1: in a run of ensure_browser calls with no close in between and no
\* failing step, every call returns the page the previous call returned, and
\* it returns it in the step it was made in, creating no engine, browser,
\* context or page.
C1_SamePage ==
    [][("ensure_ret" \in ev'.what /\ stable.calls # "none")
        => /\ ev'.res.v = stable.page
           /\ "ensure_enter" \in ev'.what
           /\ made' = made
           /\ Handles(m') = Handles(m)]_vars

C1_Witness ==
    /\ stable.calls = "again"
    /\ "ensure_ret" \in ev.what
    /\ stable.page \in Ids
    /\ ev.res.v = stable.page

\* handles held now were all created after close() last returned
FreshHandles ==
    /\ m.playwright = Null \/ m.playwright > old.engine
    /\ m.browser = Null \/ m.browser > old.browser
    /\ m.context = Null \/ m.context > old.context
    /\ NoPage(m) \/ m.page > old.page

\* C2: when close() returns all four handles are None, and from then on no
\* handle created before that return is held or returned: an ensure_browser
\* that returns afterwards holds an engine, a browser, a context and a page
\* that were all created after the close.
C2_RebuildFromScratch ==
    /\ "close_ret" \in ev.what => AllNull(m)
    /\ FreshHandles
    /\ "ensure_ret" \in ev.what =>
           /\ ev.res.v = m.page
           /\ m.playwright > old.engine /\ m.browser > old.browser
           /\ m.context > old.context /\ m.page > old.page

C2_Witness ==
    /\ old.page >= 1
    /\ "ensure_ret" \in ev.what
    /\ m.playwright > old.engine /\ m.browser > old.browser
    /\ m.context > old.context /\ m.page > old.page
    /\ ev.res.v = m.page

\* C3 (as claimed): close() entered on a fully torn down session returns
\* without raising, issues no close/stop call and leaves the handles as they
\* were.
C3_Orig ==
    [][("close_enter" \in ev'.what /\ TornDown(m))
        => /\ "close_ret" \in ev'.what
           /\ "attr_error" \notin ev'.what
           /\ Handles(m') = Handles(m)
           /\ live' = live]_vars

\* C4 (as claimed): when a close step of close() raises, teardown still ends
\* with all four handles None.
C4_Orig == "close_step_failed" \in ev.what => AllNull(m)

\* C5 (as claimed): in every state a page handle implies a context handle, a
\* context handle a browser handle, a browser handle an engine handle.
C5_Orig ==
    /\ ~NoPage(m) => m.context # Null
    /\ m.context # Null => m.browser # Null
    /\ m.browser # Null => m.playwright # Null

\* C6 (as claimed): however ensure_browser coroutines interleave, at most one
\* engine, one browser, one context and one page are live.
C6_Orig == \A k \in Kinds : Cardinality(live[k]) <= 1

\* C7 (as claimed): a page returned by ensure_browser is a page opened on the
\* context the session holds, and that context, its browser and its engine
\* are open.
C7_Orig ==
    "ensure_ret" \in ev.what =>
        /\ ev.res.v \in Ids
        /\ Usable(ev.res.v)
        /\ par.page[ev.res.v] = m.context

\* C8: browser_type, headless and viewport never change after the first
\* construction, whatever is constructed or called later.
C8_ConfigFixed == [][Cfg(m') = Cfg(m)]_vars

C8_Witness ==
    /\ "construct_other" \in ev.what
    /\ Cfg(m) = <<"chromium", FALSE, DefaultViewport>>

\* C9 (as claimed): when the launch raises, the session is left with no
\* browser, no context and no page handle.
C9_Orig ==
    "launch_failed" \in ev.what =>
        m.browser = Null /\ m.context = Null /\ NoPage(m)

\* C10 (as claimed): ensure_browser called on a session that holds an engine,
\* a browser and a context but no page goes on to open a page on that
\* context, and touches nothing else.
C10_Orig ==
    [][(/\ "ensure_enter" \in ev'.what
        /\ ev'.what \cap {"close_ret", "construct"} = {}
        /\ m.playwright # Null /\ m.browser # Null /\ m.context # Null
        /\ NoPage(m))
        => /\ \E t \in Tasks : pc'[t] = "aw_newpage2" /\ tgt'[t].on = m.context
           /\ Handles(m') = Handles(m)
           /\ made' = made]_vars

\* C12 (as claimed): a page operation that fails inside a tool handler ends
\* the handler with an error string, never with an exception.
C12_Orig == "pageop_failed" \in ev.what => ev.res.k = "error_string"

\* C13 (as claimed): a handler called with an empty or non-string value for
\* a string argument it requires returns an error string at once: it does
\* not call ensure_browser, nothing is created, the session is unchanged.
C13_Orig ==
    []["bad_arg" \in ev'.what
        => /\ ev'.res.k = "error_string"
           /\ "ensure_enter" \notin ev'.what
           /\ m' = m /\ made' = made /\ live' = live /\ pc' = pc]_vars

\* what the cleanup is meant to hit: a name with the browser signature and
\* an executable path with the automation-engine marker, in any letter case
C14_Target(info) ==
    /\ info.name # NoStr
    /\ info.exe # NoStr
    /\ Contains(<<"c", "h", "r", "o", "m", "e">>, Lower(info.name))
    /\ Contains(<<"p", "l", "a", "y", "w", "r", "i", "g", "h", "t">>, Lower(info.exe))

\* C14: process cleanup calls terminate() only on processes that carry both
\* signatures; a NoSuchProcess or AccessDenied on one process does not stop
\* the loop, so unless terminate() raises some other error every such
\* process is signalled and the success message is returned.
C14_ExactTermination ==
    kill.done =>
        /\ \A i \in DOMAIN procs : kill.out[i] # "none" => C14_Target(procs[i])
        /\ (\A i \in DOMAIN procs : kill.out[i] # "OSError")
              => /\ \A i \in DOMAIN procs : C14_Target(procs[i]) => kill.out[i] # "none"
                 /\ kill.res = "terminated"

\* terminate() was refused on one matching process and still reached a
\* later one, next to a process that carries one signature only
C14_Witness ==
    /\ kill.done
    /\ kill.res = "terminated"
    /\ \E i, j \in DOMAIN procs :
          /\ i < j
          /\ kill.out[i] \in {"NoSuchProcess", "AccessDenied"}
          /\ kill.out[j] = "sent"
    /\ \E i \in DOMAIN procs :
          /\ kill.out[i] = "none"
          /\ \/ Contains(Sig_chrome, Lower(procs[i].name)) /\ procs[i].name # NoStr
             \/ Contains(Sig_playwright, Lower(procs[i].exe)) /\ procs[i].exe # NoStr

\* C15 (as claimed): once browser_close has returned and left no manager,
\* the next handler either is a browser_close that answers "not running"
\* and closes nothing, or rejects its arguments, or goes on to
\* ensure_browser to rebuild the session.
C15_Orig ==
    [][(Idle /\ pw_manager = "None")
        => \/ /\ ev'.res.k = "not_running"
              /\ "close_enter" \notin ev'.what
              /\ live' = live
           \/ ev'.res.k = "error_string"
           \/ "ensure_enter" \in ev'.what]_vars

\* C16 (as claimed): browser_save_as_pdf called on a live session that is
\* already configured chromium / headless=False closes nothing, keeps every
\* handle, and works on the page the session held before the call.
C16_Orig ==
    [][(/\ Idle
        /\ \E t \in Tasks : op'[t] = "browser_save_as_pdf"
        /\ m.browser_type = "chromium" /\ ~m.headless
        /\ m.playwright # Null /\ m.browser # Null /\ m.context # Null
        /\ m.page \in Ids /\ Usable(m.page))
        => /\ "close_enter" \notin ev'.what
           /\ Handles(m') = Handles(m)
           /\ live' = live
           /\ ev'.res = [k |-> "page", v |-> m.page]]_vars

\* the session holds the only engine, browser, context and page there are,
\* created with the configuration (chromium, headless=False, 1920x1080)
OneChain ==
    /\ made = [k \in Kinds |-> 1]
    /\ live = [k \in Kinds |-> {1}]
    /\ Handles(m) = <<1, 1, 1, 1>>
    /\ par.browser[1] = 1 /\ par.context[1] = 1 /\ par.page[1] = 1
    /\ opt.browser[1] = <<"chromium", FALSE>>
    /\ opt.context[1] = <<DefaultViewport>>

\* C11: on the session as constructed at line 85 (chromium, headless=False,
\* viewport 1920x1080), when the first call of ensure_browser returns it has
\* started exactly one engine, launched exactly one browser with that kind
\* and headless setting on it, opened exactly one context with that viewport
\* on the browser and exactly one page on the context, and it returns that page.
C11_FirstAcquire ==
    [][(first /\ "ensure_ret" \in ev'.what)
        => (OneChain' /\ ev'.res = [k |-> "page", v |-> 1])]_vars

C11_Witness ==
    /\ ~first
    /\ "ensure_ret" \in ev.what
    /\ stable.calls = "once"
    /\ OneChain
    /\ Cfg(m) = <<"chromium", FALSE, DefaultViewport>>
====
